---- MODULE Spec2Model ----
(***************************************************************************)
(* Model of pdf-text.py: one Flask route that decodes a base64 document,   *)
(* writes it to the fixed path /tmp/input.pdf, runs PDFQuery on that path  *)
(* and answers with the non-empty horizontal text lines.                   *)
(*                                                                         *)
(* Handler invocations are modelled as slots (Threads).  The steps of an   *)
(* invocation that touch the shared file (open/truncate, write, the two    *)
(* reads made by PDFQuery) are separate actions; the steps that only touch *)
(* locals are folded into the neighbouring action.                         *)
(***************************************************************************)
EXTENDS Integers, Sequences, FiniteSets, TLC

\* Longest filecontent string submitted in a request.
MaxLen == 5

\* Handler invocations that can exist at the same time.
Threads == {"h1", "h2"}

\* The two keys the handler reads from the JSON object.
Keys == {"filename", "filecontent"}

\* File names submitted by clients; NoName stands for an absent key.
Names == {"a.pdf", "b.pdf"}
NoName == "<none>"

\* Characters of submitted filecontent strings: one character of the base64
\* alphabet, the pad character and one character outside the alphabet.
Symbols == {"Q", "=", "!"}

SeqsUpTo(S, n) == UNION {[1..k -> S] : k \in 0..n}

Contents == SeqsUpTo(Symbols, MaxLen)

(***************************************************************************)
(* base64.b64decode(s) with its default validate=False, i.e.               *)
(* binascii.a2b_base64 in non-strict mode.                                 *)
(***************************************************************************)
B64Alphabet ==
  << "A","B","C","D","E","F","G","H","I","J","K","L","M","N","O","P",
     "Q","R","S","T","U","V","W","X","Y","Z","a","b","c","d","e","f",
     "g","h","i","j","k","l","m","n","o","p","q","r","s","t","u","v",
     "w","x","y","z","0","1","2","3","4","5","6","7","8","9","+","/" >>

BASE64_PAD == "="

IsB64Char(ch) == \E i \in DOMAIN B64Alphabet : B64Alphabet[i] = ch

\* The 6-bit value of an alphabet character.
B64Value(ch) == (CHOOSE i \in DOMAIN B64Alphabet : B64Alphabet[i] = ch) - 1

(***************************************************************************)
(* Two descriptions of filecontent strings that do not use the decoder.    *)
(***************************************************************************)
\* The number of '=' at the end of s.
RECURSIVE TrailingPads(_)
TrailingPads(s) ==
  IF s = << >> \/ s[Len(s)] # BASE64_PAD THEN 0
  ELSE 1 + TrailingPads(SubSeq(s, 1, Len(s) - 1))

\* RFC 4648 base64: alphabet characters only, in quanta of four, with at most
\* two pad characters, which close the last quantum.
IsValidBase64(s) ==
  /\ Len(s) % 4 = 0
  /\ TrailingPads(s) <= 2
  /\ \A i \in 1..(Len(s) - TrailingPads(s)) : IsB64Char(s[i])

DataCount(s, j) == Cardinality({i \in 1..j : IsB64Char(s[i])})

\* The pad characters at or before position j that no alphabet character
\* separates from position j.
PadRun(s, j) ==
  Cardinality({k \in 1..j : /\ s[k] = BASE64_PAD
                            /\ \A m \in k..j : ~IsB64Char(s[m])
                            /\ DataCount(s, k) % 4 >= 2})

\* Some pad character completes a quantum of two or three data characters.
PadComplete(s) ==
  \E j \in 1..Len(s) :
    /\ s[j] = BASE64_PAD
    /\ DataCount(s, j) % 4 >= 2
    /\ (DataCount(s, j) % 4) + PadRun(s, j) >= 4

\* The data characters of s stop inside a quantum that no padding completes.
IncorrectPadding(s) == ~PadComplete(s) /\ DataCount(s, Len(s)) % 4 # 0

DecodeError == [ok |-> FALSE, bytes |-> << >>]

\* The decoder's loop: characters outside the alphabet are skipped, a pad
\* sequence that completes the current quantum ends the decoding, and input
\* that ends inside a quantum is an error (binascii.Error).
RECURSIVE a2b_base64(_, _, _, _, _, _)
a2b_base64(s, i, quad_pos, leftchar, pads, out) ==
  IF i > Len(s)
    THEN IF quad_pos # 0 THEN DecodeError ELSE [ok |-> TRUE, bytes |-> out]
  ELSE IF s[i] = BASE64_PAD
    THEN IF quad_pos >= 2 /\ quad_pos + pads + 1 >= 4
           THEN [ok |-> TRUE, bytes |-> out]
           ELSE a2b_base64(s, i + 1, quad_pos, leftchar,
                           IF quad_pos >= 2 THEN pads + 1 ELSE pads, out)
  ELSE IF ~IsB64Char(s[i])
    THEN a2b_base64(s, i + 1, quad_pos, leftchar, pads, out)
  ELSE LET v == B64Value(s[i]) IN
    CASE quad_pos = 0 -> a2b_base64(s, i + 1, 1, v, 0, out)
      [] quad_pos = 1 -> a2b_base64(s, i + 1, 2, v % 16, 0,
                            Append(out, (leftchar * 4 + v \div 16) % 256))
      [] quad_pos = 2 -> a2b_base64(s, i + 1, 3, v % 4, 0,
                            Append(out, (leftchar * 16 + v \div 4) % 256))
      [] quad_pos = 3 -> a2b_base64(s, i + 1, 0, 0, 0,
                            Append(out, (leftchar * 64 + v) % 256))

\* Variant: base64.b64decode(s, validate=True).
b64decodeStrict(s) ==
  IF IsValidBase64(s) THEN a2b_base64(s, 1, 0, 0, 0, << >>) ELSE DecodeError

b64decode(s) == a2b_base64(s, 1, 0, 0, 0, << >>)

(***************************************************************************)
(* The layout analyser (PDFQuery) is an external collaborator.  The model  *)
(* fixes one deterministic analyser over the byte strings that can be in   *)
(* the scratch file: a document starts with a magic byte, and every later  *)
(* byte is a page carrying horizontal text lines.  A line's text of ""     *)
(* stands for a falsy t.text (None or the empty string).                   *)
(***************************************************************************)
PDF_MAGIC == 65

ParseError == [ok |-> FALSE, lines |-> << >>]

PageBytes == {4, 16, 65}

PageLines(b) ==
  CASE b = 4  -> << "Hello", "", "World" >>
    [] b = 16 -> << "", "Bye" >>
    [] b = 65 -> << "Hello" >>

RECURSIVE PagesLines(_)
PagesLines(pages) ==
  IF pages = << >> THEN << >>
  ELSE PageLines(Head(pages)) \o PagesLines(Tail(pages))

\* PDFQuery(path), load() and pq('LTTextLineHorizontal') on a file holding
\* bytes: an empty, headless or corrupt file raises.
PDFLines(bytes) ==
  IF bytes = << >> \/ bytes[1] # PDF_MAGIC THEN ParseError
  ELSE IF \E i \in 2..Len(bytes) : bytes[i] \notin PageBytes THEN ParseError
  ELSE [ok |-> TRUE, lines |-> PagesLines(Tail(bytes))]

\* Variant: text = [t.text for t in text_elements].
AllTexts(text_elements) == text_elements

\* text = [t.text for t in text_elements if t.text]
RECURSIVE NonEmptyTexts(_)
NonEmptyTexts(text_elements) ==
  IF text_elements = << >> THEN << >>
  ELSE IF Head(text_elements) # ""
    THEN << Head(text_elements) >> \o NonEmptyTexts(Tail(text_elements))
    ELSE NonEmptyTexts(Tail(text_elements))

(***************************************************************************)
(* Requests.                                                               *)
(***************************************************************************)
\* A request body: malformed JSON, or a JSON object holding a subset of the
\* two keys.  An absent key has the value NoName / the empty string.
Bodies ==
  {b \in [wellformed : BOOLEAN, keys : SUBSET Keys,
          filename : Names \cup {NoName}, filecontent : Contents] :
     /\ ("filename" \in b.keys) <=> (b.filename # NoName)
     /\ ("filecontent" \notin b.keys) => (b.filecontent = << >>)
     /\ ~b.wellformed => (b.keys = {})}

\* What is remembered of a request for stating properties about it.
ReqOf(body) ==
  [wellformed |-> body.wellformed,
   keys       |-> body.keys,
   filename   |-> body.filename,
   valid      |-> IsValidBase64(body.filecontent),
   badpad     |-> IncorrectPadding(body.filecontent)]

NoReq ==
  [wellformed |-> TRUE, keys |-> {}, filename |-> NoName,
   valid |-> TRUE, badpad |-> FALSE]

Raise(status, stage) ==
  [ok |-> FALSE, status |-> status, stage |-> stage,
   filename |-> NoName, pdf_bytes |-> << >>]

\* Variant: the keys are read with data.get(key, ""), which never raises.
Lines9to11Get(body) ==
  IF ~body.wellformed THEN Raise(400, "json")
  ELSE LET d == b64decode(body.filecontent) IN
    IF ~d.ok THEN Raise(500, "decode")
    ELSE [ok |-> TRUE, status |-> 0, stage |-> "none",
          filename |-> body.filename, pdf_bytes |-> d.bytes]

\* Lines 9-11 of the handler: request.json, data['filename'],
\* base64.b64decode(data['filecontent']).
Lines9to11(body) ==
  IF ~body.wellformed THEN Raise(400, "json")
  ELSE IF "filename" \notin body.keys THEN Raise(500, "filename")
  ELSE IF "filecontent" \notin body.keys THEN Raise(500, "filecontent")
  ELSE LET d == b64decode(body.filecontent) IN
    IF ~d.ok THEN Raise(500, "decode")
    ELSE [ok |-> TRUE, status |-> 0, stage |-> "none",
          filename |-> body.filename, pdf_bytes |-> d.bytes]

\* The requests a client can send, each with what lines 9-11 make of it.
Arrivals == {[req |-> ReqOf(b), out |-> Lines9to11(b)] : b \in Bodies}

(***************************************************************************)
(* State.                                                                  *)
(***************************************************************************)
VARIABLES
  threaded,       \* whether the server runs each request in its own thread
  pc,             \* per invocation: where the handler is
  req,            \* per invocation: the request being handled
  local,          \* per invocation: filename, pdf_bytes, file offset, PDFQuery's view
  resp,           \* per invocation: the response returned
  alone,          \* per invocation: no other invocation ran during this one
  scratch,        \* the bytes of /tmp/input.pdf
  scratchExists,  \* whether /tmp/input.pdf exists
  lastWrite,      \* pdf_bytes of the latest invocation that opened the file
  everOverlap,    \* two invocations have been in progress at once
  hazards         \* kinds of cross-request interference seen so far

vars == << threaded, pc, req, local, resp, alone, scratch, scratchExists,
           lastWrite, everOverlap, hazards >>

NoLocal == [filename |-> NoName, pdf_bytes |-> << >>, pos |-> 0, seen |-> << >>]

NoResp ==
  [status |-> 0, stage |-> "none", filename |-> NoName,
   text |-> << >>, lines |-> << >>]

InProgress(t) == pc[t] \in {"open", "write", "construct", "load"}

Others(t) == Threads \ {t}

Init ==
  /\ threaded \in BOOLEAN
  /\ pc = [t \in Threads |-> "idle"]
  /\ req = [t \in Threads |-> NoReq]
  /\ local = [t \in Threads |-> NoLocal]
  /\ resp = [t \in Threads |-> NoResp]
  /\ alone = [t \in Threads |-> TRUE]
  /\ scratch = << >>
  /\ scratchExists = FALSE
  /\ lastWrite = << >>
  /\ everOverlap = FALSE
  /\ hazards = {}

(***************************************************************************)
(* Helpers of the actions.                                                 *)
(***************************************************************************)
\* Variant: every request is handled at once, whatever the server's mode.
CanAcceptAlways(t) == TRUE

\* app.run(host, port): a threaded server starts a handler for every request
\* at once; a non-threaded one serves one request at a time.
CanAccept(t) == threaded \/ \A u \in Others(t) : ~InProgress(u)

\* Variant: the handler catches the exception and answers 200 with no text.
CaughtResponse(status, stage) ==
  [status |-> 200, stage |-> stage, filename |-> NoName,
   text |-> << >>, lines |-> << >>]

\* An unhandled exception: Flask answers with the error status and no body
\* of the handler's making.
ErrorResponse(status, stage) ==
  [status |-> status, stage |-> stage, filename |-> NoName,
   text |-> << >>, lines |-> << >>]

\* Variant: the response names the scratch file instead of the request's file.
OkResponseScratchName(filename, text, lines) ==
  [status |-> 200, stage |-> "none", filename |-> "input.pdf",
   text |-> text, lines |-> lines]

\* jsonify({"filename": filename, "text": text}) of lines 24-27; lines is
\* what the analyser had returned.
OkResponse(filename, text, lines) ==
  [status |-> 200, stage |-> "none", filename |-> filename,
   text |-> text, lines |-> lines]

\* Variant: open(path, "r+b"), which keeps the bytes already in the file.
TruncateNot(file) == file

\* open(path, "wb"): the file exists and is empty.
Truncate(file) == << >>

Zeros(n) == [i \in 1..n |-> 0]

\* A write of chunk at offset pos of file; a gap left by a truncation made
\* through another descriptor reads as zero bytes.
WriteAt(file, pos, chunk) ==
  LET padded == IF Len(file) < pos THEN file \o Zeros(pos - Len(file)) ELSE file
  IN  SubSeq(padded, 1, pos) \o chunk
        \o SubSeq(padded, pos + Len(chunk) + 1, Len(padded))

\* What the loaded tree can be when PDFQuery read first at construction and
\* then at load(): the file's document if the file did not change, anything
\* of either content or a failure if it did.
LoadOutcomes(first, second) ==
  IF first = second THEN {PDFLines(second)}
  ELSE {PDFLines(first), PDFLines(second), ParseError}

\* Another invocation has truncated the file and not yet written all of it.
MidWrite(t) ==
  \E u \in Others(t) :
    pc[u] = "write" /\ local[u].pos < Len(local[u].pdf_bytes)

OwnText(t) == NonEmptyTexts(PDFLines(local[t].pdf_bytes).lines)

\* text is not the text of t's own document but that of the document of
\* another invocation.
CrossRead(t, text) ==
  /\ text # OwnText(t)
  /\ \E u \in Others(t) :
       /\ pc[u] # "idle"
       /\ PDFLines(local[u].pdf_bytes).ok
       /\ text = OwnText(u)

(***************************************************************************)
(* Actions.                                                                *)
(***************************************************************************)
\* Variant: the file is opened before lines 9-11 run, so a request that
\* fails there has already emptied it.
FailAfterOpen(t, a) ==
  /\ pc' = [pc EXCEPT ![t] = "returned"]
  /\ req' = [req EXCEPT ![t] = a.req]
  /\ resp' = [resp EXCEPT ![t] = ErrorResponse(a.out.status, a.out.stage)]
  /\ alone' = [alone EXCEPT ![t] = \A u \in Others(t) : ~InProgress(u)]
  /\ scratch' = << >>
  /\ scratchExists' = TRUE
  /\ UNCHANGED << local, lastWrite, everOverlap >>

\* Lines 9-11 raise: the invocation ends before the file is opened.
FailBeforeWrite(t, a) ==
  /\ pc' = [pc EXCEPT ![t] = "returned"]
  /\ req' = [req EXCEPT ![t] = a.req]
  /\ resp' = [resp EXCEPT ![t] = ErrorResponse(a.out.status, a.out.stage)]
  /\ alone' = [alone EXCEPT ![t] = \A u \in Others(t) : ~InProgress(u)]
  /\ UNCHANGED << local, scratch, scratchExists, lastWrite, everOverlap >>

\* Lines 9-11 succeed: filename and pdf_bytes are bound.
Decoded(t, a) ==
  /\ pc' = [pc EXCEPT ![t] = "open"]
  /\ req' = [req EXCEPT ![t] = a.req]
  /\ local' = [local EXCEPT ![t] =
                 [filename |-> a.out.filename, pdf_bytes |-> a.out.pdf_bytes,
                  pos |-> 0, seen |-> << >>]]
  /\ alone' = [u \in Threads |->
                 IF u = t THEN \A w \in Others(t) : ~InProgress(w)
                 ELSE IF InProgress(u) THEN FALSE ELSE alone[u]]
  /\ everOverlap' = (everOverlap \/ \E u \in Others(t) : InProgress(u))
  /\ UNCHANGED << resp, scratch, scratchExists, lastWrite >>

\* A request arrives and the handler runs lines 9-11.
Accept(t) ==
  /\ pc[t] = "idle"
  /\ CanAccept(t)
  /\ \E a \in Arrivals :
       IF a.out.ok THEN Decoded(t, a) ELSE FailBeforeWrite(t, a)
  /\ UNCHANGED << threaded, hazards >>

\* Line 14: open("/tmp/input.pdf", "wb").
Open(t) ==
  /\ pc[t] = "open"
  /\ pc' = [pc EXCEPT ![t] = "write"]
  /\ scratch' = Truncate(scratch)
  /\ scratchExists' = TRUE
  /\ lastWrite' = local[t].pdf_bytes
  /\ UNCHANGED << threaded, req, local, resp, alone, everOverlap, hazards >>

\* Line 15 and the flush: the next k bytes reach the file.
Write(t, k) ==
  /\ pc[t] = "write"
  /\ local[t].pos + k <= Len(local[t].pdf_bytes)
  /\ scratch' = WriteAt(scratch, local[t].pos,
                        SubSeq(local[t].pdf_bytes, local[t].pos + 1,
                               local[t].pos + k))
  /\ local' = [local EXCEPT ![t].pos = @ + k]
  /\ UNCHANGED << threaded, pc, req, resp, alone, scratchExists, lastWrite,
                  everOverlap, hazards >>

\* Variant: the file is read back without having been flushed and closed.
CloseWithoutFlush(t) ==
  /\ pc[t] = "write"
  /\ pc' = [pc EXCEPT ![t] = "construct"]
  /\ UNCHANGED << threaded, req, local, resp, alone, scratch, scratchExists,
                  lastWrite, everOverlap, hazards >>

\* The end of the with block: everything is written, the file is closed.
Close(t) ==
  /\ pc[t] = "write"
  /\ local[t].pos = Len(local[t].pdf_bytes)
  /\ pc' = [pc EXCEPT ![t] = "construct"]
  /\ UNCHANGED << threaded, req, local, resp, alone, scratch, scratchExists,
                  lastWrite, everOverlap, hazards >>

\* Line 18: PDFQuery("/tmp/input.pdf") opens the file and reads its
\* structure; a file that is no document raises.
Construct(t) ==
  /\ pc[t] = "construct"
  /\ IF PDFLines(scratch).ok
       THEN /\ pc' = [pc EXCEPT ![t] = "load"]
            /\ local' = [local EXCEPT ![t].seen = scratch]
            /\ UNCHANGED << resp, hazards >>
       ELSE /\ pc' = [pc EXCEPT ![t] = "returned"]
            /\ resp' = [resp EXCEPT ![t] = ErrorResponse(500, "parse")]
            /\ hazards' = IF MidWrite(t) /\ PDFLines(local[t].pdf_bytes).ok
                            THEN hazards \cup {"partial"} ELSE hazards
            /\ UNCHANGED local
  /\ UNCHANGED << threaded, req, alone, scratch, scratchExists, lastWrite,
                  everOverlap >>

\* Lines 19-27: pdf.load() reads the pages, the text lines are queried and
\* filtered, and the response is built.
Load(t) ==
  /\ pc[t] = "load"
  /\ pc' = [pc EXCEPT ![t] = "returned"]
  /\ \E tree \in LoadOutcomes(local[t].seen, scratch) :
       IF tree.ok
         THEN LET text == NonEmptyTexts(tree.lines) IN
              /\ resp' = [resp EXCEPT ![t] =
                            OkResponse(local[t].filename, text, tree.lines)]
              /\ hazards' = IF CrossRead(t, text)
                              THEN hazards \cup {"cross"} ELSE hazards
         ELSE /\ resp' = [resp EXCEPT ![t] = ErrorResponse(500, "parse")]
              /\ hazards' = IF MidWrite(t) /\ PDFLines(local[t].pdf_bytes).ok
                              THEN hazards \cup {"partial"} ELSE hazards
  /\ UNCHANGED << threaded, req, local, alone, scratch, scratchExists,
                  lastWrite, everOverlap >>

\* Variant: the scratch file is removed once the response is sent.
SendAndRemove(t) ==
  /\ pc[t] = "returned"
  /\ pc' = [pc EXCEPT ![t] = "idle"]
  /\ req' = [req EXCEPT ![t] = NoReq]
  /\ local' = [local EXCEPT ![t] = NoLocal]
  /\ resp' = [resp EXCEPT ![t] = NoResp]
  /\ alone' = [alone EXCEPT ![t] = TRUE]
  /\ scratch' = << >>
  /\ scratchExists' = FALSE
  /\ UNCHANGED << threaded, lastWrite, everOverlap, hazards >>

\* The server has sent the response; the invocation is over.
Send(t) ==
  /\ pc[t] = "returned"
  /\ pc' = [pc EXCEPT ![t] = "idle"]
  /\ req' = [req EXCEPT ![t] = NoReq]
  /\ local' = [local EXCEPT ![t] = NoLocal]
  /\ resp' = [resp EXCEPT ![t] = NoResp]
  /\ alone' = [alone EXCEPT ![t] = TRUE]
  /\ UNCHANGED << threaded, scratch, scratchExists, lastWrite, everOverlap,
                  hazards >>

Next ==
  \E t \in Threads :
    \/ Accept(t)
    \/ Open(t)
    \/ \E k \in 1..Len(local[t].pdf_bytes) : Write(t, k)
    \/ Close(t)
    \/ Construct(t)
    \/ Load(t)
    \/ Send(t)

Spec == Init /\ [][Next]_vars

(***************************************************************************)
(* Properties.                                                             *)
(***************************************************************************)
Returned(t) == pc[t] = "returned"

Answered200(t) == Returned(t) /\ resp[t].status = 200

\* The request carried both keys in a well-formed JSON object.
Complete(t) == req[t].wellformed /\ req[t].keys = Keys

EarlyStages == {"json", "filename", "filecontent", "decode"}

\* C1: an invocation during which no other invocation ran answers with the
\* extraction of its own document: it succeeds exactly when its own decoded
\* bytes are a document, and then its text is the text of that document.
C1_SequentialOwnText ==
  \A t \in Threads :
    (Returned(t) /\ alone[t] /\ resp[t].stage \notin EarlyStages) =>
      /\ (resp[t].status = 200) <=> PDFLines(local[t].pdf_bytes).ok
      /\ resp[t].status = 200 =>
           /\ resp[t].lines = PDFLines(local[t].pdf_bytes).lines
           /\ resp[t].text = OwnText(t)

\* Two invocations that did not overlap, with different documents and
\* different texts, each answered with its own text.
C1_Witness ==
  \E t \in Threads : \E u \in Others(t) :
    /\ Answered200(t) /\ Answered200(u)
    /\ alone[t] /\ alone[u] /\ ~everOverlap
    /\ local[t].pdf_bytes # local[u].pdf_bytes
    /\ resp[t].text = OwnText(t) /\ resp[u].text = OwnText(u)
    /\ resp[t].text # resp[u].text
    /\ resp[t].text # << >> /\ resp[u].text # << >>

NonEmptyIdx(lines) == {j \in DOMAIN lines : lines[j] # ""}

Rank(lines, j) == Cardinality({i \in NonEmptyIdx(lines) : i <= j})

\* C2: the text of every 200 response is the subsequence of the analyser's
\* lines with non-empty text, in order: no item is empty, there are as many
\* items as non-empty lines, and the k-th non-empty line is the k-th item.
C2_TextIsNonEmptyLines ==
  \A t \in Threads :
    Answered200(t) =>
      LET L == resp[t].lines
          T == resp[t].text
      IN  /\ \A i \in DOMAIN T : T[i] # ""
          /\ Len(T) = Cardinality(NonEmptyIdx(L))
          /\ \A j \in NonEmptyIdx(L) : T[Rank(L, j)] = L[j]

\* One 200 response for a document without lines, with an empty text, and
\* one for a document whose lines include empty ones between non-empty ones.
C2_Witness ==
  \E t \in Threads : \E u \in Others(t) :
    /\ Answered200(t) /\ resp[t].lines = << >> /\ resp[t].text = << >>
    /\ Answered200(u)
    /\ \E i, j, k \in DOMAIN resp[u].lines :
         /\ i < j /\ j < k
         /\ resp[u].lines[i] # "" /\ resp[u].lines[j] = ""
         /\ resp[u].lines[k] # ""
    /\ Len(resp[u].text) >= 2

\* C3: every 200 response carries the filename of its own request.
C3_FilenameEchoed ==
  \A t \in Threads :
    Answered200(t) => resp[t].filename = req[t].filename

\* A 200 response whose text comes from another invocation's document and
\* whose filename is still its own request's, not the other's.
C3_Witness ==
  \E t \in Threads : \E u \in Others(t) :
    /\ Answered200(t)
    /\ resp[t].text # OwnText(t)
    /\ Returned(u) /\ Complete(u)
    /\ req[u].filename # req[t].filename
    /\ resp[t].filename = req[t].filename

C5_MissingKeyFails ==
  \A t \in Threads :
    (pc[t] # "idle" /\ req[t].wellformed /\ req[t].keys # Keys) =>
      /\ Returned(t)
      /\ resp[t].status = 500
      /\ resp[t].stage \in {"filename", "filecontent"}
      /\ local[t] = NoLocal

\* A request with filename and without filecontent was answered 500.
C5_Witness ==
  \E t \in Threads :
    /\ Returned(t) /\ req[t].wellformed
    /\ req[t].keys = {"filename"}
    /\ resp[t].status = 500 /\ resp[t].stage = "filecontent"

C7_HazardsNeedOverlap ==
  /\ hazards # {} => (threaded /\ everOverlap)
  /\ \A t \in Threads :
       (Answered200(t) /\ resp[t].text # OwnText(t)) =>
         /\ ~alone[t]
         /\ resp[t].filename = req[t].filename

\* Both hazards have happened: a 200 response with the text of the other
\* invocation's document, and a parse failure on a file that the other
\* invocation had truncated and not yet written.
C7_Witness ==
  /\ hazards = {"cross", "partial"}
  /\ \E t \in Threads : \E u \in Others(t) :
       /\ Answered200(t)
       /\ resp[t].text # OwnText(t)
       /\ Returned(u) /\ Complete(u)
       /\ resp[t].text = OwnText(u)
       /\ resp[t].filename = req[t].filename

\* C8 as claimed: no two invocations of the handler are in progress at once.
C8_OneAtATime ==
  \A t \in Threads : \A u \in Others(t) : ~(InProgress(t) /\ InProgress(u))

\* C8 as amended: on a server that is not threaded no two invocations are in
\* progress at once, so no invocation writes the file between another one's
\* write and extraction.
C8_SerialWhenNotThreaded ==
  ~threaded =>
    /\ \A t \in Threads : \A u \in Others(t) : ~(InProgress(t) /\ InProgress(u))
    /\ \A t \in Threads :
         pc[t] \in {"construct", "load"} => scratch = local[t].pdf_bytes

\* On a server that is not threaded, an invocation has written its document
\* and is about to extract while an earlier invocation, with another
\* document, has returned.
C8_Witness ==
  /\ ~threaded
  /\ \E t \in Threads : \E u \in Others(t) :
       /\ pc[t] = "construct"
       /\ Answered200(u)
       /\ local[u].pdf_bytes # local[t].pdf_bytes

\* C9: the scratch file is never removed, and while invocations do not
\* overlap and none is inside its write, the file holds exactly the decoded
\* bytes of the latest invocation that opened it.
C9_ScratchIsLastWrite ==
  [][ /\ scratchExists => scratchExists'
      /\ (scratchExists' /\ ~everOverlap' /\ \A t \in Threads : pc'[t] # "write")
           => scratch' = lastWrite' ]_vars

\* After a longer document was handled, a shorter one that failed to parse
\* was handled alone, and the file holds exactly the shorter one's bytes.
C9_Witness ==
  \E t \in Threads : \E u \in Others(t) :
    /\ ~everOverlap
    /\ Answered200(t) /\ Len(local[t].pdf_bytes) = 3
    /\ Returned(u) /\ resp[u].stage = "parse"
    /\ scratchExists
    /\ scratch = local[u].pdf_bytes
    /\ Len(scratch) < 3

\* C10: a step in which a request fails in lines 9-11 changes neither the
\* scratch file nor the record of its latest writer.
C10_EarlyFailureLeavesScratch ==
  [][ \A t \in Threads :
        (pc[t] = "idle" /\ pc'[t] = "returned") =>
          /\ resp'[t].stage \in EarlyStages
          /\ scratch' = scratch
          /\ scratchExists' = scratchExists
          /\ lastWrite' = lastWrite ]_vars

\* A request failed at the decode step while the file holds the document of
\* an earlier request.
C10_Witness ==
  \E t \in Threads : \E u \in Others(t) :
    /\ Returned(t) /\ resp[t].stage = "decode"
    /\ Answered200(u)
    /\ scratchExists /\ scratch # << >>
    /\ scratch = local[u].pdf_bytes
    /\ ~everOverlap

====
